---- MODULE Spec2Model ----
(***************************************************************************)
(* Turn-taking arbitration of UpgradedAgent (src/my_agent.py).             *)
(*                                                                         *)
(* Text is a sequence of one-character strings, so that strip(), lower(),  *)
(* the substring test `ww in lower`, split() and " ".join() are computed   *)
(* as Python computes them.  Time is counted in ticks of 0.35 s and         *)
(* confidence in hundredths.  A handler call is one action; the calls it   *)
(* makes on the TTS collaborator and on the dialogue layer are recorded,   *)
(* in order, in the effects of the call.                                   *)
(***************************************************************************)
EXTENDS Integers, Sequences, FiniteSets, TLC

VARIABLES
    is_agent_speaking,      \* self.is_agent_speaking
    last_user_speech_time,  \* self.last_user_speech_time
    track_to_participant,   \* self.track_to_participant
    active_speaker,         \* self.active_speaker
    now,                    \* the wall clock read by time.time()
    stop_output_fails,      \* whether self.tts.stop_output() raises at present
    call                    \* the last handler call: input, state before, effects

vars == <<is_agent_speaking, last_user_speech_time, track_to_participant,
          active_speaker, now, stop_output_fails, call>>

-----------------------------------------------------------------------------
(* Bounds of the model *)

\* the clock stops advancing here
MaxTime == 6

-----------------------------------------------------------------------------
(* Python values *)

None == "None"
\* a key that a dict does not hold
NoKey == "NoKey"
\* transcript = None
NoneText == <<"None">>

Whitespace == {" ", "\t", "\n"}

UpperChars == <<"A","B","C","D","E","F","G","H","I","J","K","L","M",
                "N","O","P","Q","R","S","T","U","V","W","X","Y","Z">>
LowerChars == <<"a","b","c","d","e","f","g","h","i","j","k","l","m",
                "n","o","p","q","r","s","t","u","v","w","x","y","z">>

\* str.lower() on one character
lower_char(c) ==
    IF \E i \in DOMAIN UpperChars : UpperChars[i] = c
    THEN LowerChars[CHOOSE i \in DOMAIN UpperChars : UpperChars[i] = c]
    ELSE c

\* str.lower()
lower(s) == [i \in DOMAIN s |-> lower_char(s[i])]

RECURSIVE lstrip(_)
lstrip(s) ==
    IF s = <<>> THEN s
    ELSE IF Head(s) \in Whitespace THEN lstrip(Tail(s)) ELSE s

RECURSIVE rstrip(_)
rstrip(s) ==
    IF s = <<>> THEN s
    ELSE IF s[Len(s)] \in Whitespace THEN rstrip(SubSeq(s, 1, Len(s) - 1)) ELSE s

\* str.strip()
strip(s) == rstrip(lstrip(s))

\* `needle in hay` on strings
contains(hay, needle) ==
    \E i \in 1..(Len(hay) - Len(needle) + 1) :
        SubSeq(hay, i, i + Len(needle) - 1) = needle

\* length of the leading run of non-whitespace characters
RECURSIVE word_len(_)
word_len(s) ==
    IF s = <<>> THEN 0
    ELSE IF Head(s) \in Whitespace THEN 0 ELSE 1 + word_len(Tail(s))

\* str.split() with no argument: the words between runs of whitespace
RECURSIVE split(_)
split(s) ==
    LET t == lstrip(s) IN
    IF t = <<>> THEN <<>>
    ELSE LET n == word_len(t) IN
         <<SubSeq(t, 1, n)>> \o split(SubSeq(t, n + 1, Len(t)))

\* " ".join(parts)
RECURSIVE join(_)
join(parts) ==
    IF parts = <<>> THEN <<>>
    ELSE IF Len(parts) = 1 THEN parts[1]
    ELSE parts[1] \o <<" ">> \o join(Tail(parts))

\* set(seq)
to_set(seq) == {seq[i] : i \in DOMAIN seq}

-----------------------------------------------------------------------------
(* Configuration / tunables *)

IGNORED_WORDS ==
    { <<"u","h">>, <<"u","m","m">>, <<"h","m","m">>, <<"h","a","a","n">>,
      <<"l","i","k","e">>, <<"i"," ","m","e","a","n">>, <<"m","m">> }

WAKE_WORDS ==
    { <<"h","e","y"," ","a","g","e","n","t">>, <<"l","i","s","t","e","n">>,
      <<"s","t","o","p">>, <<"c","a","n","c","e","l">>,
      <<"a","g","e","n","t"," ","s","t","o","p">>, <<"h","e","y">> }

\* 0.55, in hundredths
MIN_CONFIDENCE == 55

\* 0.7 s, in ticks of 0.35 s
PAUSE_WINDOW_SEC == 2

MIN_TOKENS_TO_INTERRUPT == 1

TOKEN_NOISE_CLASSES == {"filler", "noise", "laugh", "breath", "unk"}

-----------------------------------------------------------------------------
(* The agent inside a handler call: its fields, the effects the call has had *)
(* so far, and whether an exception is propagating.                         *)

Effect(op, speaking, text, speaker) ==
    [op |-> op, speaking |-> speaking, text |-> text, speaker |-> speaker]

\* record that self makes an outside call `op` while in the state of self
emit(self, op, text, speaker) ==
    [self EXCEPT !.effects =
        Append(@, Effect(op, self.is_agent_speaking, text, speaker))]

on_tts_start(self) ==
    [emit(self, "on_tts_start", <<>>, None) EXCEPT !.is_agent_speaking = TRUE]

\* on_tts_complete flipping the flag instead of clearing it
on_tts_complete_toggle(self) ==
    [emit(self, "on_tts_complete", <<>>, None)
        EXCEPT !.is_agent_speaking = ~self.is_agent_speaking]

on_tts_complete(self) ==
    [emit(self, "on_tts_complete", <<>>, None) EXCEPT !.is_agent_speaking = FALSE]

on_tts_interrupted(self) ==
    [emit(self, "on_tts_interrupted", <<>>, None) EXCEPT !.is_agent_speaking = FALSE]

\* self.tts.stop_output(): the collaborator is called and may raise
tts_stop_output(self, fails) ==
    [emit(self, "stop_output", <<>>, None) EXCEPT !.raised = fails]

\* try_stop_output without its except clause
try_stop_output_uncaught(self, fails) == tts_stop_output(self, fails)

\* try: self.tts.stop_output()  except Exception: log.debug(...)
try_stop_output(self, fails) ==
    [tts_stop_output(self, fails) EXCEPT !.raised = FALSE]

\* on_tts_start(); time.sleep(0.05); on_tts_complete()
simulate_agent_reply(self) == on_tts_complete(on_tts_start(self))

\* dict.get(key, default) on the "participant" key of meta
meta_get_participant(meta, default) ==
    IF meta.participant = NoKey THEN default ELSE meta.participant

\* the text and the speaker are handed to the dialogue layer, then the reply
handle_user_input(self, text, meta) ==
    simulate_agent_reply(
        emit(self, "dispatch", text,
             meta_get_participant(meta, self.active_speaker)))

\* interrupt_and_handle without its call of on_tts_interrupted
interrupt_and_handle_unmarked(self, text, meta, fails) ==
    LET stopped == try_stop_output(self, fails) IN
    IF stopped.raised THEN stopped
    ELSE handle_user_input(stopped, text, meta)

interrupt_and_handle(self, text, meta, fails) ==
    LET stopped == try_stop_output(self, fails) IN
    IF stopped.raised THEN stopped
    ELSE handle_user_input(on_tts_interrupted(stopped), text, meta)

-----------------------------------------------------------------------------
(* on_transcription_event, step by step *)

\* event_text without strip()
event_text_unstripped(transcript) ==
    IF transcript = NoneText THEN <<>> ELSE transcript

\* (transcript or "").strip()
event_text(transcript) ==
    strip(IF transcript = NoneText THEN <<>> ELSE transcript)

\* meta.get("track_id") or meta.get("speaker_id")
event_track_id(meta) == meta.track_id

\* self.track_to_participant.get(track_id) if track_id else
\*     meta.get("participant") or meta.get("speaker")
event_speaker(self, meta) ==
    IF event_track_id(meta) # None
    THEN IF event_track_id(meta) \in DOMAIN self.track_to_participant
         THEN self.track_to_participant[event_track_id(meta)]
         ELSE None
    ELSE meta_get_participant(meta, None)

\* any(ww in lower for ww in WAKE_WORDS)
has_wake_word(low) == \E ww \in WAKE_WORDS : contains(low, ww)

\* t.get("type", "word") not in TOKEN_NOISE_CLASSES and t.get("text", "").strip()
is_non_noise_token(t) ==
    /\ t.type \notin TOKEN_NOISE_CLASSES
    /\ strip(t.text) # <<>>

non_noise_tokens(tokens) == SelectSeq(tokens, is_non_noise_token)

\* " ".join(t.get("text", "") for t in non_noise_tokens).strip()
token_text(tokens) ==
    LET nn == non_noise_tokens(tokens) IN
    strip(join([i \in DOMAIN nn |-> nn[i].text]))

\* `if tokens:` is false for None and for the empty list alike, and tokens
\* is used nowhere else: both are the empty sequence here
tokens_present(meta) == meta.tokens # <<>>

\* the tokens leave fewer than MIN_TOKENS_TO_INTERRUPT non-noise tokens
tokens_noise_only(meta) ==
    /\ tokens_present(meta)
    /\ Len(non_noise_tokens(meta.tokens)) < MIN_TOKENS_TO_INTERRUPT

\* the text the later steps work on (lines 148, 164-172)
working_text(low, meta) ==
    IF tokens_present(meta) /\ token_text(meta.tokens) # <<>>
    THEN lower(token_text(meta.tokens))
    ELSE low

\* is_filler_only with == in place of issubset
is_filler_only_equal(low) == to_set(split(low)) = IGNORED_WORDS

\* words = set(lower.split()); len(words) > 0 and words.issubset(IGNORED_WORDS)
is_filler_only(low) ==
    LET words == to_set(split(low)) IN
    words # {} /\ words \subseteq IGNORED_WORDS

\* low_confidence with the threshold one hundredth lower
low_confidence_lenient(meta) == meta.confidence < MIN_CONFIDENCE - 1

low_confidence(meta) == meta.confidence < MIN_CONFIDENCE

\* time_since_last < PAUSE_WINDOW_SEC
within_pause_window(time_since_last) == time_since_last < PAUSE_WINDOW_SEC

\* arbitrate with the confidence threshold ahead of the wake-word check
arbitrate_confidence_first(self, low, meta, t2, fails) ==
    IF low_confidence(meta) THEN self
    ELSE IF has_wake_word(low) THEN interrupt_and_handle(self, low, meta, fails)
    ELSE IF tokens_noise_only(meta) THEN self
    ELSE LET work == working_text(low, meta)
             time_since_last == t2 - self.last_user_speech_time
         IN  IF is_filler_only(work) THEN self
             ELSE IF self.is_agent_speaking
                  THEN IF within_pause_window(time_since_last) THEN self
                       ELSE interrupt_and_handle(self, work, meta, fails)
                  ELSE handle_user_input(self, work, meta)

\* steps 1-5 of the handler, after the bookkeeping of lines 142-145;
\* t2 is the clock read at line 182
arbitrate(self, low, meta, t2, fails) ==
    IF has_wake_word(low) THEN interrupt_and_handle(self, low, meta, fails)
    ELSE IF low_confidence(meta) THEN self
    ELSE IF tokens_noise_only(meta) THEN self
    ELSE LET work == working_text(low, meta)
             time_since_last == t2 - self.last_user_speech_time
         IN  IF is_filler_only(work) THEN self
             ELSE IF self.is_agent_speaking
                  THEN IF within_pause_window(time_since_last) THEN self
                       ELSE interrupt_and_handle(self, work, meta, fails)
                  ELSE handle_user_input(self, work, meta)

\* note_user_speech without the assignment of line 143
note_user_speech_untimed(self, meta, t1) ==
    LET speaker == event_speaker(self, meta) IN
    [self EXCEPT !.active_speaker = IF speaker # None THEN speaker ELSE @]

\* lines 142-145: the bookkeeping done for every non-empty event;
\* t1 is the clock read at line 143
note_user_speech(self, meta, t1) ==
    LET speaker == event_speaker(self, meta) IN
    [self EXCEPT !.last_user_speech_time = t1,
                 !.active_speaker = IF speaker # None THEN speaker ELSE @]

\* on_transcription_event returning early when the track has no participant
on_transcription_event_attributed(self, transcript, meta, t1, t2, fails) ==
    LET text == event_text(transcript) IN
    IF text = <<>> THEN self
    ELSE IF event_track_id(meta) # None /\ event_speaker(self, meta) = None
         THEN self
         ELSE arbitrate(note_user_speech(self, meta, t1), lower(text), meta,
                        t2, fails)

on_transcription_event(self, transcript, meta, t1, t2, fails) ==
    LET text == event_text(transcript) IN
    IF text = <<>> THEN self
    ELSE arbitrate(note_user_speech(self, meta, t1), lower(text), meta, t2, fails)

\* on_track_published assigning a new dict in place of the item
on_track_published_replace(self, tid, identity) ==
    IF tid # None /\ identity # None
    THEN [self EXCEPT !.track_to_participant = [k \in {tid} |-> identity]]
    ELSE self

\* tid and identity as _on_track_published extracts them; both must be truthy
on_track_published(self, tid, identity) ==
    IF tid # None /\ identity # None
    THEN [self EXCEPT !.track_to_participant =
            [k \in DOMAIN @ \cup {tid} |-> IF k = tid THEN identity ELSE @[k]]]
    ELSE self

-----------------------------------------------------------------------------
(* The inputs the handlers are called with *)

TrackIds == {"track_1"}
Identities == {"alice", "bob"}

Transcripts ==
    { NoneText,                                 \* transcript absent
      <<>>,                                     \* ""
      <<" ", "\t">>,                            \* whitespace only
      <<" ", "U","m","m", " ", "u","h">>,       \* " Umm uh": fillers only
      <<"S","t","o","p">>,                      \* "Stop": a wake phrase
      <<"t","h","e","y", " ", "g","o">>,        \* "they go": "hey" inside a word
      <<"G","o", " ", "o","n">> }               \* "Go on": a command

\* 0.54 and 0.55: just below MIN_CONFIDENCE, and MIN_CONFIDENCE itself
Confidences == {MIN_CONFIDENCE - 1, MIN_CONFIDENCE}

Token(text, type) == [text |-> text, type |-> type]

TokenLists ==
    { <<>>,
      << Token(<<"u","m","m">>, "filler"), Token(<<"u","h">>, "filler") >>,
      << Token(<<"u","h">>, "noise"), Token(<<"G","o">>, "word"),
         Token(<<"o","n">>, "word") >>,
      << Token(<<"U","m","m">>, "word") >>,
      << Token(<<"G","o">>, "unknown"), Token(<<"o","n">>, "cough") >>,
      << Token(<<"u","h">>, "unknown"), Token(<<"G","o">>, "word") >> }

\* meta as the ASR wrapper passes it; no "participant" key
Metas ==
    [confidence : Confidences, tokens : TokenLists,
     track_id : TrackIds \cup {None}, participant : {NoKey}]

\* what can pass between the clock reads of lines 143 and 182 of one call
CallDelays == {0, PAUSE_WINDOW_SEC - 1, PAUSE_WINDOW_SEC}

-----------------------------------------------------------------------------
(* State machine *)

Fields ==
    [is_agent_speaking |-> is_agent_speaking,
     last_user_speech_time |-> last_user_speech_time,
     track_to_participant |-> track_to_participant,
     active_speaker |-> active_speaker]

\* the agent as a handler finds it
Self == [f \in {"effects", "raised"} |-> IF f = "effects" THEN <<>> ELSE FALSE]
            @@ Fields

NoMeta == [confidence |-> 100, tokens |-> <<>>, track_id |-> None,
           participant |-> NoKey]

\* the record of a call of handler op that left the agent as `after`
Call(op, transcript, meta, t1, t2, after) ==
    [op |-> op, transcript |-> transcript, meta |-> meta, t1 |-> t1, t2 |-> t2,
     fails |-> stop_output_fails, before |-> Fields,
     effects |-> after.effects, raised |-> after.raised]

\* time.time() when the agent is constructed: past 0.0, the value that
\* last_user_speech_time starts with
FirstTime == 1

NoCall ==
    [op |-> "none", transcript |-> <<>>, meta |-> NoMeta, t1 |-> 0, t2 |-> 0,
     fails |-> FALSE,
     before |-> [is_agent_speaking |-> FALSE, last_user_speech_time |-> 0,
                 track_to_participant |-> <<>>, active_speaker |-> None],
     effects |-> <<>>, raised |-> FALSE]

Init ==
    /\ is_agent_speaking = FALSE
    /\ last_user_speech_time = 0
    /\ track_to_participant = <<>>
    /\ active_speaker = None
    /\ now = FirstTime
    /\ stop_output_fails = FALSE
    /\ call = NoCall

\* the agent's fields become those of `after`
Becomes(after) ==
    /\ is_agent_speaking' = after.is_agent_speaking
    /\ last_user_speech_time' = after.last_user_speech_time
    /\ track_to_participant' = after.track_to_participant
    /\ active_speaker' = after.active_speaker

\* on_transcription_event(transcript, meta) is called with one of the given
\* transcripts and metas
TranscriptionEventFrom(transcripts, metas) ==
    /\ call = NoCall
    /\ \E transcript \in transcripts, meta \in metas, d \in CallDelays :
        /\ now + d <= MaxTime
        /\ LET after == on_transcription_event(Self, transcript, meta,
                                               now, now + d, stop_output_fails)
           IN  /\ Becomes(after)
               /\ call' = Call("on_transcription_event", transcript, meta,
                               now, now + d, after)
        /\ now' = now + d
    /\ UNCHANGED stop_output_fails

\* the ASR wrapper calls on_transcription_event(transcript, meta)
TranscriptionEvent == TranscriptionEventFrom(Transcripts, Metas)

\* the synthesis pipeline signals that playback started
TtsStart ==
    /\ call = NoCall
    /\ LET after == on_tts_start(Self)
       IN  /\ Becomes(after)
           /\ call' = Call("on_tts_start", <<>>, NoMeta, now, now, after)
    /\ UNCHANGED <<now, stop_output_fails>>

TtsComplete ==
    /\ call = NoCall
    /\ LET after == on_tts_complete(Self)
       IN  /\ Becomes(after)
           /\ call' = Call("on_tts_complete", <<>>, NoMeta, now, now, after)
    /\ UNCHANGED <<now, stop_output_fails>>

TtsInterrupted ==
    /\ call = NoCall
    /\ LET after == on_tts_interrupted(Self)
       IN  /\ Becomes(after)
           /\ call' = Call("on_tts_interrupted", <<>>, NoMeta, now, now, after)
    /\ UNCHANGED <<now, stop_output_fails>>

\* _on_track_published(track) is called for one of the given track ids, or
\* for a track without id, of a participant or of none
TrackPublishedFrom(tids) ==
    /\ call = NoCall
    /\ \E tid \in tids \cup {None}, identity \in Identities \cup {None} :
        LET after == on_track_published(Self, tid, identity)
        IN  /\ Becomes(after)
            /\ call' = Call("on_track_published", <<>>,
                            [NoMeta EXCEPT !.track_id = tid,
                                           !.participant = identity],
                            now, now, after)
    /\ UNCHANGED <<now, stop_output_fails>>

\* the room announces a track
TrackPublished == TrackPublishedFrom(TrackIds)

\* the handler has returned to its caller
Return ==
    /\ call # NoCall
    /\ call' = NoCall
    /\ UNCHANGED <<is_agent_speaking, last_user_speech_time,
                   track_to_participant, active_speaker, now, stop_output_fails>>

\* a tick of the clock passes
Tick ==
    /\ call = NoCall
    /\ now < MaxTime
    /\ now' = now + 1
    /\ UNCHANGED <<is_agent_speaking, last_user_speech_time,
                   track_to_participant, active_speaker, stop_output_fails, call>>

\* the TTS collaborator breaks down or recovers
TtsFault ==
    /\ call = NoCall
    /\ stop_output_fails' = ~stop_output_fails
    /\ UNCHANGED <<is_agent_speaking, last_user_speech_time,
                   track_to_participant, active_speaker, now, call>>

Next ==
    \/ TranscriptionEvent
    \/ TtsStart
    \/ TtsComplete
    \/ TtsInterrupted
    \/ TrackPublished
    \/ Return
    \/ Tick
    \/ TtsFault

Spec == Init /\ [][Next]_vars

-----------------------------------------------------------------------------
(* The same agent in a room of two tracks, hearing fewer kinds of events *)

RoomTrackIds == {"track_1", "track_2"}

RoomTranscripts ==
    { <<" ", "\t">>,                            \* whitespace only
      <<"S","t","o","p">>,                      \* "Stop": a wake phrase
      <<"G","o", " ", "o","n">> }               \* "Go on": a command

RoomMetas ==
    [confidence : {MIN_CONFIDENCE}, tokens : {<<>>},
     track_id : RoomTrackIds \cup {None}, participant : {NoKey}]

RoomTranscriptionEvent == TranscriptionEventFrom(RoomTranscripts, RoomMetas)

RoomTrackPublished == TrackPublishedFrom(RoomTrackIds)

NextRoom ==
    \/ RoomTranscriptionEvent
    \/ TtsStart
    \/ TtsComplete
    \/ TtsInterrupted
    \/ RoomTrackPublished
    \/ Return
    \/ Tick
    \/ TtsFault

SpecRoom == Init /\ [][NextRoom]_vars

-----------------------------------------------------------------------------
(* What a call of on_transcription_event was given and what it did *)

IsEvent == call.op = "on_transcription_event"

\* the transcript is absent, empty or made of whitespace only
BlankTranscript ==
    \/ call.transcript = NoneText
    \/ \A i \in DOMAIN call.transcript : call.transcript[i] \in Whitespace

\* the trimmed, lower-cased text of the event
EventLower == lower(event_text(call.transcript))

EventHasWake == IsEvent /\ ~BlankTranscript /\ has_wake_word(EventLower)

EventWakeFree == IsEvent /\ ~BlankTranscript /\ ~has_wake_word(EventLower)

\* the text the verdict is taken on
EventWorkingText == working_text(EventLower, call.meta)

\* no wake phrase, and neither the confidence gate nor the token gate discards
EventPassesGates ==
    /\ EventWakeFree
    /\ call.meta.confidence >= MIN_CONFIDENCE
    /\ ~tokens_noise_only(call.meta)

\* the working text has words, and each of them is a filler word
AllWordsFillers ==
    LET ws == split(EventWorkingText) IN
    ws # <<>> /\ \A i \in DOMAIN ws : ws[i] \in IGNORED_WORDS

EventFillerOnly == EventPassesGates /\ AllWordsFillers

EventMeaningful == EventPassesGates /\ ~AllWordsFillers

\* a non-empty event came before this one and recorded its time
HadUserSpeech == call.before.last_user_speech_time >= FirstTime

\* time from the last recorded user-speech update to the arrival of the event
ElapsedSinceLast == call.t1 - call.before.last_user_speech_time

Did(op) == \E i \in DOMAIN call.effects : call.effects[i].op = op

Dispatched(text) ==
    \E i \in DOMAIN call.effects :
        call.effects[i].op = "dispatch" /\ call.effects[i].text = text

\* stop-output, and after it the dispatch of text
StoppedThenDispatched(text) ==
    \E i, j \in DOMAIN call.effects :
        /\ i < j
        /\ call.effects[i].op = "stop_output"
        /\ call.effects[j].op = "dispatch"
        /\ call.effects[j].text = text

\* neither stop-output nor dispatch, and the output state as it was
Discarded ==
    /\ ~Did("stop_output")
    /\ ~Did("dispatch")
    /\ is_agent_speaking = call.before.is_agent_speaking

-----------------------------------------------------------------------------
(* Claims *)

\* C1: an event whose trimmed, lower-cased text contains a wake phrase as a
\* substring ends in stop-output followed by the dispatch of that text,
\* whatever its confidence and its tokens.
C1_WakePhraseInterrupts ==
    EventHasWake => StoppedThenDispatched(EventLower) /\ ~call.raised

\* a wake phrase inside a word, below MIN_CONFIDENCE, with noise-only tokens
C1_Witness ==
    /\ EventHasWake
    /\ call.meta.confidence < MIN_CONFIDENCE
    /\ tokens_noise_only(call.meta)
    /\ ~(<<"s","t","o","p">> \in to_set(split(EventLower)))
    /\ StoppedThenDispatched(EventLower)

\* C2: while the agent speaks, a meaningful wake-free event arriving at least
\* PAUSE_WINDOW_SEC after the last recorded user-speech update stops the
\* output, marks the agent interrupted (not speaking) and dispatches the text.
C2_LatePauseInterrupts ==
    (EventMeaningful /\ call.before.is_agent_speaking
        /\ HadUserSpeech /\ ElapsedSinceLast >= PAUSE_WINDOW_SEC)
    => /\ StoppedThenDispatched(EventWorkingText)
       /\ Did("on_tts_interrupted")
       /\ ~is_agent_speaking

\* C3: while the agent speaks, a meaningful wake-free event arriving less than
\* PAUSE_WINDOW_SEC after the last recorded user-speech update is discarded,
\* the agent keeps speaking, and last_user_speech_time becomes the event's time.
C3_EarlyEventDeferred ==
    (EventMeaningful /\ call.before.is_agent_speaking
        /\ HadUserSpeech /\ ElapsedSinceLast < PAUSE_WINDOW_SEC)
    => /\ Discarded
       /\ is_agent_speaking
       /\ last_user_speech_time = call.t1

\* C4: while the agent is idle, every non-empty event that the confidence and
\* token gates do not discard is dispatched, a filler-only one included.
C4_IdleDispatchesFillers ==
    (EventPassesGates /\ ~call.before.is_agent_speaking)
    => Dispatched(EventWorkingText)

\* C5: stop-output is never invoked while the agent is not speaking.
C5_NoStopWhileIdle ==
    \A i \in DOMAIN call.effects :
        call.effects[i].op = "stop_output" => call.effects[i].speaking

\* C6: every stop-output is followed at once by the transition to interrupted
\* and only then by the dispatch, which finds the agent not speaking.
C6_InterruptedBeforeDispatch ==
    \A i \in DOMAIN call.effects :
        call.effects[i].op = "stop_output"
        => /\ i + 2 <= Len(call.effects)
           /\ call.effects[i + 1].op = "on_tts_interrupted"
           /\ call.effects[i + 2].op = "dispatch"
           /\ ~call.effects[i + 2].speaking

\* the output of a speaking agent is stopped
C6_Witness ==
    /\ IsEvent
    /\ call.before.is_agent_speaking
    /\ Did("stop_output")
    /\ Did("dispatch")

\* C7: when stop-output raises, the interruption still completes: the agent is
\* marked interrupted (not speaking), the text is dispatched and no exception
\* leaves on_transcription_event.
C7_FailedStopStillDispatches ==
    (IsEvent /\ call.fails /\ Did("stop_output"))
    => /\ ~call.raised
       /\ Did("on_tts_interrupted")
       /\ StoppedThenDispatched(IF EventHasWake THEN EventLower
                                ELSE EventWorkingText)
       /\ ~is_agent_speaking

\* stop-output raised while the agent was speaking
C7_Witness ==
    /\ IsEvent
    /\ call.fails
    /\ call.before.is_agent_speaking
    /\ Did("stop_output")
    /\ Did("dispatch")

\* C8: a wake-free event with confidence below MIN_CONFIDENCE is discarded,
\* whether the agent is speaking or idle.
C8_LowConfidenceDiscarded ==
    (EventWakeFree /\ call.meta.confidence < MIN_CONFIDENCE) => Discarded

\* an idle agent discards a command heard with low confidence
C8_Witness ==
    /\ EventWakeFree
    /\ call.meta.confidence < MIN_CONFIDENCE
    /\ ~call.before.is_agent_speaking
    /\ ~tokens_present(call.meta)
    /\ ~is_filler_only(EventLower)
    /\ Discarded

\* C9: while the agent speaks, a filler-only event is discarded and the agent
\* keeps speaking.
C9_FillerWhileSpeakingDiscarded ==
    (EventFillerOnly /\ call.before.is_agent_speaking)
    => Discarded /\ is_agent_speaking

\* fillers arrive while the agent speaks, and the call passes the pause window
C9_Witness ==
    /\ EventFillerOnly
    /\ call.before.is_agent_speaking
    /\ call.t2 - call.t1 >= PAUSE_WINDOW_SEC
    /\ Discarded
    /\ is_agent_speaking

\* C10: an event whose text is absent, empty or whitespace-only is discarded
\* and leaves the output state, last_user_speech_time, active_speaker and the
\* speaker mapping as they were.
C10_BlankEventIgnored ==
    (IsEvent /\ BlankTranscript)
    => /\ call.effects = <<>>
       /\ ~call.raised
       /\ Fields = call.before

\* a whitespace-only event from a mapped track, long after the last one
C10_Witness ==
    /\ IsEvent
    /\ BlankTranscript
    /\ call.transcript # NoneText
    /\ call.transcript # <<>>
    /\ call.before.is_agent_speaking
    /\ call.meta.track_id \in DOMAIN track_to_participant
    /\ active_speaker # track_to_participant[call.meta.track_id]
    /\ call.t1 > call.before.last_user_speech_time
    /\ Fields = call.before

\* the token classes of the data model, and those among them that are noise
TokenClasses == {"word", "filler", "noise", "laugh", "breath", "unknown"}
NoiseClasses == {"filler", "noise", "laugh", "breath", "unknown"}

\* a class outside TokenClasses counts as "unknown"
ClassOf(t) == IF t.type \in TokenClasses THEN t.type ELSE "unknown"

IsMeaningfulToken(t) == ClassOf(t) \notin NoiseClasses

MeaningfulTokens == SelectSeq(call.meta.tokens, IsMeaningfulToken)

\* the lower-cased, space-joined texts of the meaningful tokens, in order
ReconstructedText ==
    lower(join([i \in DOMAIN MeaningfulTokens |-> MeaningfulTokens[i].text]))

\* tokens came with a wake-free event of sufficient confidence
EventWithTokens ==
    /\ EventWakeFree
    /\ call.meta.confidence >= MIN_CONFIDENCE
    /\ call.meta.tokens # <<>>

\* text has words, and each of them is a filler word
FillersOnly(text) ==
    LET ws == split(text) IN
    ws # <<>> /\ \A i \in DOMAIN ws : ws[i] \in IGNORED_WORDS

\* C11: with tokens, no wake phrase and sufficient confidence, an event whose
\* tokens all have a class in {filler, noise, laugh, breath, unknown}, an
\* unrecognised class counting as unknown, is discarded without stop-output
\* and without dispatch.
C11_NoiseTokensDiscarded ==
    (EventWithTokens /\ Len(MeaningfulTokens) < MIN_TOKENS_TO_INTERRUPT)
    => ~Did("stop_output") /\ ~Did("dispatch") /\ ~call.raised

\* C12: with tokens that pass the gates, the verdict is taken on the
\* lower-cased, space-joined texts of the remaining non-noise tokens, and a
\* dispatch on the normal path carries that text, not the transcript.
C12_ReconstructedTextDispatched ==
    (EventWithTokens /\ Len(MeaningfulTokens) >= MIN_TOKENS_TO_INTERRUPT)
    => /\ Did("dispatch") => Dispatched(ReconstructedText)
       /\ (FillersOnly(ReconstructedText) /\ call.before.is_agent_speaking)
            => Discarded
       /\ (~FillersOnly(ReconstructedText) /\ ~call.before.is_agent_speaking)
            => Dispatched(ReconstructedText)

\* C13: the lifecycle signals are accepted in every state and the output
\* state after one depends on that signal alone: on_tts_start leaves the agent
\* speaking, on_tts_complete and on_tts_interrupted leave it not speaking.
C13_SignalsLastWriterWins ==
    /\ call.op = "on_tts_start" => is_agent_speaking /\ ~call.raised
    /\ call.op \in {"on_tts_complete", "on_tts_interrupted"}
        => ~is_agent_speaking /\ ~call.raised

\* on_tts_complete signalled to an agent that is not speaking
C13_Witness ==
    /\ call.op = "on_tts_complete"
    /\ ~call.before.is_agent_speaking
    /\ ~is_agent_speaking

\* C14: every non-empty event sets last_user_speech_time to its arrival time,
\* whatever becomes of it, and nothing else changes last_user_speech_time: it
\* is the arrival time of the most recent non-empty event.
C14_LastSpeechTimeTracksEvents ==
    [][IF IsEvent' /\ ~BlankTranscript'
       THEN last_user_speech_time' = call'.t1
       ELSE last_user_speech_time' = last_user_speech_time]_vars

\* a later event of low confidence is discarded and still moves the time
C14_Witness ==
    /\ EventWakeFree
    /\ call.meta.confidence < MIN_CONFIDENCE
    /\ Discarded
    /\ HadUserSpeech
    /\ call.t1 > call.before.last_user_speech_time
    /\ last_user_speech_time = call.t1

\* the agent as the call found it, but with another mapping and active speaker
CallSelf(mapping, speaker) ==
    [is_agent_speaking |-> call.before.is_agent_speaking,
     last_user_speech_time |-> call.before.last_user_speech_time,
     track_to_participant |-> mapping,
     active_speaker |-> speaker,
     effects |-> <<>>, raised |-> FALSE]

\* the same event, at the same times, given to that agent
Rerun(mapping, speaker) ==
    on_transcription_event(CallSelf(mapping, speaker), call.transcript,
                           call.meta, call.t1, call.t2, call.fails)

\* what was done and with which text, leaving out who was named as speaker
Actions(effects) ==
    [i \in DOMAIN effects |-> <<effects[i].op, effects[i].text>>]

\* C15: attribution is advisory: whatever the speaker mapping holds for the
\* event's track (and whoever spoke before), the event leads to the same
\* outside calls with the same texts and to the same output state as it does
\* with an empty mapping and no earlier speaker; so any two runs that differ
\* in the mapping alone agree.
C15_AttributionAdvisory ==
    IsEvent =>
        LET other == Rerun(<<>>, None) IN
        /\ Actions(other.effects) = Actions(call.effects)
        /\ other.is_agent_speaking = is_agent_speaking
        /\ other.last_user_speech_time = last_user_speech_time
        /\ other.raised = call.raised

\* an event from a registered track, after another speaker, is dispatched
C15_Witness ==
    /\ IsEvent
    /\ call.meta.track_id \in DOMAIN call.before.track_to_participant
    /\ call.before.active_speaker # None
    /\ call.before.active_speaker
            # call.before.track_to_participant[call.meta.track_id]
    /\ Did("dispatch")

\* the identity resolved for the event: that of its track, else the one meta
\* names, else absent
ResolvedSpeaker ==
    IF call.meta.track_id \in DOMAIN call.before.track_to_participant
    THEN call.before.track_to_participant[call.meta.track_id]
    ELSE IF call.meta.track_id = None /\ call.meta.participant # NoKey
         THEN call.meta.participant
         ELSE None

\* C16: a dispatch carries the identity resolved for its own event, or none
\* when the source is unmapped: never the speaker of an earlier event.
C16_DispatchCarriesOwnSpeaker ==
    IsEvent =>
        \A i \in DOMAIN call.effects :
            call.effects[i].op = "dispatch"
            => call.effects[i].speaker = ResolvedSpeaker

\* C17: on_transcription_event does not wait for the reply to its dispatch:
\* it returns before that reply has completed, so that a following event can
\* fall into the reply's speaking window.
C17_DispatchDoesNotWait ==
    IsEvent =>
        \A i, j \in DOMAIN call.effects :
            (i < j /\ call.effects[i].op = "dispatch")
            => call.effects[j].op # "on_tts_complete"

Upsert(mapping, key, value) ==
    [k \in DOMAIN mapping \cup {key} |-> IF k = key THEN value ELSE mapping[k]]

\* C19: only a track publication changes the speaker mapping, and it is an
\* idempotent upsert: given a track id and an identity it binds the id to the
\* identity (overwriting) and keeps every other entry, and handling the same
\* notification again changes nothing; lacking either it changes nothing.  It
\* never raises, no step removes an entry, and transcription events and the
\* TTS signals leave the mapping as it is.
C19_MappingChangedOnlyByPublication ==
    [][/\ DOMAIN track_to_participant \subseteq DOMAIN track_to_participant'
       /\ IF call'.op = "on_track_published"
          THEN LET tid == call'.meta.track_id
                   identity == call'.meta.participant
               IN  /\ ~call'.raised
                   /\ IF tid # None /\ identity # None
                      THEN track_to_participant'
                                = Upsert(track_to_participant, tid, identity)
                      ELSE track_to_participant' = track_to_participant
                   /\ on_track_published(
                          [track_to_participant |-> track_to_participant'],
                          tid, identity).track_to_participant
                        = track_to_participant'
          ELSE track_to_participant' = track_to_participant]_vars

\* a registered track gets a new identity while the other track keeps its own
C19_Witness ==
    /\ call.op = "on_track_published"
    /\ DOMAIN call.before.track_to_participant = RoomTrackIds
    /\ call.meta.track_id \in RoomTrackIds
    /\ call.meta.participant \in Identities
    /\ call.before.track_to_participant[call.meta.track_id]
            # call.meta.participant
    /\ track_to_participant[call.meta.track_id] = call.meta.participant
    /\ \E k \in RoomTrackIds :
            /\ k # call.meta.track_id
            /\ track_to_participant[k] # call.meta.participant

====
